---- MODULE Spec2Model ----
(***************************************************************************)
(* NtpSpy: a UDP listener that answers NTP client requests (startNTPServer)*)
(* and hands an alert text to a bounded channel (msgChan), from which      *)
(* processTelegramMessages forwards it to the Telegram API; main wires the *)
(* two goroutines to one cancellable context.                              *)
(*                                                                         *)
(* The sources hold three revisions of the program:                        *)
(*   "main"  src/main.go               no validation, no geolocation       *)
(*   "valid" src/unnamed/part_001:1    size/mode validation                *)
(*   "geo"   src/unnamed/part_001:174  validation, geolocation, escaping   *)
(* The variable variant fixes the revision a behaviour runs.               *)
(***************************************************************************)
EXTENDS Integers, Sequences, FiniteSets, TLC

\* ---------------------------------------------------------------- bounds
\* Datagrams the clients send in one behaviour.
MaxDatagrams == 4
\* Datagrams the clients send in a behaviour checked for liveness.
MaxLiveDatagrams == 2
\* Datagrams the clients send in a behaviour that tries every instant.
MaxCodecDatagrams == 1
\* Datagrams the socket holds unread.
MaxPending == 1
\* Capacity of msgChan in the model (make(chan string, 100) in the program).
QueueCap == 2

\* ------------------------------------------------------ program constants
BufSize == 48
ClientMode == 3
ReplySize == 48
LIVNMode == 28
StatusOK == 200

Variants == {"main", "valid", "geo"}

\* Datagrams the clients send, by length and first byte: a client request
\* (0x1B: version 3, mode 3), a server-mode packet (0x1C: mode 4), a short
\* one, an oversize one and an empty one (which has no first byte).
Datagrams ==
    { [len |-> 48, b0 |-> 27],
      [len |-> 48, b0 |-> 28],
      [len |-> 10, b0 |-> 27],
      [len |-> 60, b0 |-> 27],
      [len |-> 0, b0 |-> 0] }

\* Instants at which a reply is built: Unix seconds as two 16-bit words
\* (hi * 65536 + lo) and the nanoseconds within the second.
\* 1970-01-01, 2023-11-14 (1700000000), 2036-02-07 06:28:15 and 06:28:16
\* (the last second whose NTP value fits 32 bits and the first that does
\* not), and 2040-01-01 (2208988800).
Now2023 == [hi |-> 25939, lo |-> 61696, nsec |-> 999999999]
Times ==
    { [hi |-> 0, lo |-> 0, nsec |-> 0],
      Now2023,
      [hi |-> 31829, lo |-> 33151, nsec |-> 1000],
      [hi |-> 31829, lo |-> 33152, nsec |-> 500000000],
      [hi |-> 33706, lo |-> 32384, nsec |-> 123456789] }

\* Field values the geolocation service returns, as character tokens.
GeoFields == { <<"A", "&", "B">> }
GeoReplies == {[Country |-> f, City |-> f, ASN |-> <<>>, ISP |-> f] : f \in GeoFields}
EmptyGeo == [Country |-> <<>>, City |-> <<>>, ASN |-> <<>>, ISP |-> <<>>]

\* What http.Get and the decoder can come back with in getGeoIP.
GeoOutcomes ==
    {[err |-> "transport", status |-> 0, body |-> EmptyGeo, json |-> FALSE],
     [err |-> "none", status |-> 500, body |-> EmptyGeo, json |-> TRUE],
     [err |-> "none", status |-> 200, body |-> EmptyGeo, json |-> FALSE]}
        \cup {[err |-> "none", status |-> 200, body |-> g, json |-> TRUE] : g \in GeoReplies}

\* What http.Get can come back with in processTelegramMessages.
TelegramOutcomes ==
    {[err |-> "transport", status |-> 0],
     [err |-> "none", status |-> 200],
     [err |-> "none", status |-> 429]}

VARIABLES
    variant,    \* revision of the program that runs
    clock,      \* the instant time.Now() shows
    lastReply,  \* the reply makeNTPResponse built last
    ctxDone,    \* ctx.Done() is closed
    mainPc,     \* main: "wait" (<-sigChan), "sleep", "exited"
    sock,       \* datagrams the socket holds unread, oldest first
    nsent,      \* datagrams that have reached the socket so far
    lpc,        \* startNTPServer: "select","recv","check","geo","offer","stopped"
    cur,        \* the datagram the Listener read last and what it did with it
    msg,        \* the alert the Listener is about to offer
    msgChan,    \* the buffered channel
    dpc,        \* processTelegramMessages: "select","http","stopped"
    lastReq,    \* the latest http.Get issued to the Telegram API and its outcome
    openResp,   \* responses whose Body is not yet closed
    win,        \* offers since the Dispatcher last completed a delivery
    cnt,        \* alerts offered, dropped and taken since the start, and
                \* datagrams handled after ctx.Done() was closed
    lastDrop,   \* number of the datagram whose alert was dropped last
    pool,       \* handles of the buffers lying in bufPool
    held,       \* the handle the latest bufPool.Get returned
    bufOut      \* buffers the Listener holds

vars == <<variant, clock, lastReply, ctxDone, mainPc, sock, nsent, lpc, cur, msg, msgChan,
          dpc, lastReq, openResp, win, cnt, lastDrop, pool, held, bufOut>>

lvars == <<sock, nsent, lpc, cur, msg, lastDrop, pool, held, bufOut>>
dvars == <<dpc, lastReq, openResp>>

Min(a, b) == IF a < b THEN a ELSE b

NoMsg == [id |-> 0, text |-> <<>>]

\* The datagram read last: its number, length and first byte, the n that
\* ReadFromUDP returned, and what the Listener has done for it so far.
NoCur == [id |-> 0, len |-> 0, b0 |-> 0, n |-> 0, codec |-> FALSE,
          reply |-> "none", size |-> 0, rb0 |-> 0, lookup |-> "none",
          offer |-> "none", text |-> <<>>]

NoReq == [id |-> 0, prev |-> 0, text |-> <<>>, outcome |-> "none"]
NoWin == [offered |-> 0, queued |-> 0, dropped |-> 0]
NoCnt == [offered |-> 0, dropped |-> 0, taken |-> 0, late |-> 0]

\* What the pool stores for a buffer: the pointer to a slice header (none in
\* src/main.go, which stores the slice itself) and the backing array.
NoHandle == [ptr |-> 0, store |-> 0]

Running == mainPc # "exited"

TypeOK ==
    /\ variant \in Variants
    /\ ctxDone \in BOOLEAN
    /\ mainPc \in {"wait", "sleep", "exited"}
    /\ Len(sock) <= MaxPending
    /\ nsent \in 0..MaxDatagrams
    /\ lpc \in {"select", "recv", "check", "geo", "offer", "stopped"}
    /\ cur.id \in 0..MaxDatagrams
    /\ cur.reply \in {"none", "ok", "err"}
    /\ cur.lookup \in {"none", "ok", "err"}
    /\ cur.offer \in {"none", "queued", "dropped"}
    /\ dpc \in {"select", "http", "stopped"}
    /\ lastReq.outcome \in {"none", "pending", "transport", "status", "ok"}
    /\ openResp \in 0..MaxDatagrams
    /\ lastDrop \in 0..MaxDatagrams
    /\ \A h \in pool : h.ptr \in 0..2 /\ h.store = 1
    /\ held.ptr \in 0..2 /\ held.store \in 0..1
    /\ bufOut \in 0..1

\* The state once main has started both goroutines, the clock apart.
Start ==
    /\ variant \in Variants
    /\ lastReply = <<>>
    /\ ctxDone = FALSE
    /\ mainPc = "wait"
    /\ sock = <<>>
    /\ nsent = 0
    /\ lpc = "select"
    /\ cur = NoCur
    /\ msg = NoMsg
    /\ msgChan = <<>>
    /\ dpc = "select"
    /\ lastReq = NoReq
    /\ openResp = 0
    /\ win = NoWin
    /\ cnt = NoCnt
    /\ lastDrop = 0
    /\ pool = {}
    /\ held = NoHandle
    /\ bufOut = 0

\* The timestamp of a reply bears on nothing else the program does: the
\* behaviours of Spec run at one instant, those of CodecSpec at any.
Init == Start /\ clock = Now2023

CodecInit == Start /\ clock \in Times

\* ------------------------------------------------------------ makeNTPResponse
\* seconds := uint32(now.Unix() + 2208988800), as two 16-bit words;
\* 2208988800 = 33706 * 65536 + 32384.
\* Mutant: the offset between the epochs of 1900 and 1970 is left out.
NtpSecondsUnixEpoch(now) == [hi |-> now.hi, lo |-> now.lo]
NtpSeconds(now) ==
    LET lo == now.lo + 32384
        hi == now.hi + 33706 + (lo \div 65536)
    IN  [hi |-> hi % 65536, lo |-> lo % 65536]

\* fraction := uint32(now.Nanosecond() / 1000)
NtpFraction(now) == now.nsec \div 1000

makeNTPResponse(now) ==
    LET seconds == NtpSeconds(now)
        fraction == NtpFraction(now)
    IN  [i \in 1..ReplySize |->
            CASE i = 1  -> LIVNMode
              [] i = 41 -> seconds.hi \div 256
              [] i = 42 -> seconds.hi % 256
              [] i = 43 -> seconds.lo \div 256
              [] i = 44 -> seconds.lo % 256
              [] i = 45 -> (fraction \div 16777216) % 256
              [] i = 46 -> (fraction \div 65536) % 256
              [] i = 47 -> (fraction \div 256) % 256
              [] i = 48 -> fraction % 256
              [] OTHER  -> 0]

\* ------------------------------------------------------------------ addresses
\* Datagram i comes from client i: clientAddr.IP.String() and clientAddr.String().
IPString(i) == <<"10.0.0." \o ToString(i)>>
AddrString(i) == IPString(i) \o <<":", "123">>

\* ---------------------------------------------------------------- alert texts
\* "Синхронизация NTP с клиентом: " as character tokens.
SyncPrefix == <<"Sync", " ", "NTP", " ", "client", ":", " ">>
\* " (геолокация не определена)"
UnknownSuffix == <<" ", "(", "geolocation", " ", "unknown", ")">>

\* main.go:124, part_001:110
PlainText(i) == SyncPrefix \o AddrString(i)
\* part_001:325
UnknownText(i) == SyncPrefix \o IPString(i) \o UnknownSuffix
\* part_001:327
GeoText(i, geo) ==
    SyncPrefix \o IPString(i)
        \o <<"\n", "Country", ":", " ">> \o geo.Country
        \o <<"\n", "City", ":", " ">> \o geo.City
        \o <<"\n", "ASN", ":", " ">> \o geo.ASN
        \o <<"\n", "ISP", ":", " ">> \o geo.ISP

\* ------------------------------------------------------------------- getGeoIP
\* The (geo, err) pair getGeoIP returns for what the service came back with.
getGeoIP(o) ==
    IF o.err # "none" THEN [geo |-> EmptyGeo, err |-> "transport"]
    ELSE IF o.status # StatusOK THEN [geo |-> EmptyGeo, err |-> "status"]
    ELSE IF ~o.json THEN [geo |-> EmptyGeo, err |-> "decode"]
    ELSE [geo |-> o.body, err |-> "none"]

\* Mutant: the error branch is missing and the empty result is formatted.
AlertTextIgnoresErr(i, res) == GeoText(i, res.geo)
\* The alert startNTPServer composes from the lookup's result.
AlertText(i, res) ==
    IF res.err # "none" THEN UnknownText(i) ELSE GeoText(i, res.geo)

\* ----------------------------------------------------------------- validation
\* mode := buf[0] & 0x07
Mode(b) == b % 8

\* Whether the revision serves the datagram it read n bytes of.
MainAccepts(n, b) == TRUE
\* Mutant: the mode compared with is 4, the server's own.
SizeModeAcceptsServerMode(n, b) == n = BufSize /\ Mode(b) = 4
SizeModeAccepts(n, b) == n = BufSize /\ Mode(b) = ClientMode
Accepts(v, n, b) == IF v = "main" THEN MainAccepts(n, b) ELSE SizeModeAccepts(n, b)

\* Whether the revision sends the reply it built: main.go sends it when n > 0.
SendsReply(v, n) == IF v = "main" THEN n > 0 ELSE TRUE

\* -------------------------------------------------------------------- bufPool
\* New: make([]byte, 48), and in part_001 the address of the slice.
NewHandle(v) == [ptr |-> IF v = "main" THEN 0 ELSE 1, store |-> 1]

\* A pointer that is not p.
FreshPtr(p) == IF p = 1 THEN 2 ELSE 1

\* What Put is given for the buffer borrowed as h: src/main.go puts the slice
\* buf; part_001 puts &buf, the address of the iteration's own variable buf,
\* which holds a copy of the slice header that Get's pointer led to.
PutHandle(v, h) ==
    IF v = "main" THEN h ELSE [ptr |-> FreshPtr(h.ptr), store |-> h.store]

\* bufPool.Get(): a pooled handle, or New() when the pool is empty.
PoolGet == /\ IF pool # {}
              THEN \E h \in pool : held' = h /\ pool' = pool \ {h}
              ELSE held' = NewHandle(variant) /\ pool' = pool
           /\ bufOut' = bufOut + 1

\* Mutant: the buffer is not given back.
PoolPutMissing == UNCHANGED <<pool, held, bufOut>>
\* bufPool.Put(buf) or bufPool.Put(&buf).
PoolPut == /\ pool' = pool \cup {PutHandle(variant, held)}
           /\ held' = held
           /\ bufOut' = bufOut - 1

\* ------------------------------------------------------------------- clients
\* A client's datagram reaches the bound socket.
Send(d) ==
    /\ Running
    /\ lpc # "stopped"
    /\ nsent < MaxDatagrams
    /\ Len(sock) < MaxPending
    /\ nsent' = nsent + 1
    /\ sock' = Append(sock, [id |-> nsent + 1, len |-> d.len, b0 |-> d.b0])
    /\ UNCHANGED <<variant, clock, lastReply, ctxDone, mainPc, lpc, cur, msg, msgChan, win, cnt,
                   lastDrop, pool, held, bufOut>>
    /\ UNCHANGED dvars

\* ------------------------------------------------------------ startNTPServer
\* Mutant: the select takes its default case whatever ctx.Done() says.
LoopSelectDefaultFirst(done) == "recv"
\* What the loop's select does: ctx.Done() wins over default when it is closed.
LoopSelect(done) == IF done THEN "stopped" ELSE "recv"

\* case <-ctx.Done(): return (the deferred conn.Close() runs).
ListenerStop ==
    /\ Running
    /\ lpc = "select"
    /\ LoopSelect(ctxDone) = "stopped"
    /\ lpc' = "stopped"
    /\ UNCHANGED <<variant, clock, lastReply, ctxDone, mainPc, sock, nsent, cur, msg, msgChan,
                   win, cnt, lastDrop, pool, held, bufOut>>
    /\ UNCHANGED dvars

\* default: buf := bufPool.Get(); the goroutine enters conn.ReadFromUDP.
ListenerGet ==
    /\ Running
    /\ lpc = "select"
    /\ LoopSelect(ctxDone) = "recv"
    /\ PoolGet
    /\ lpc' = "recv"
    /\ UNCHANGED <<variant, clock, lastReply, ctxDone, mainPc, sock, nsent, cur, msg, msgChan, win, cnt,
                   lastDrop>>
    /\ UNCHANGED dvars

\* ReadFromUDP returns the oldest pending datagram, cut to the buffer.
ReadLen(len) == Min(len, BufSize)

ListenerRead ==
    /\ Running
    /\ lpc = "recv"
    /\ sock # <<>>
    /\ sock' = Tail(sock)
    /\ cur' = [NoCur EXCEPT !.id = Head(sock).id,
                            !.len = Head(sock).len,
                            !.b0 = Head(sock).b0,
                            !.n = ReadLen(Head(sock).len)]
    /\ cnt' = [cnt EXCEPT !.late = IF ctxDone THEN @ + 1 ELSE @]
    /\ lpc' = "check"
    /\ UNCHANGED <<variant, clock, lastReply, ctxDone, mainPc, nsent, msg, msgChan, win, lastDrop,
                   pool, held, bufOut>>
    /\ UNCHANGED dvars

\* ReadFromUDP returns an error: warn, bufPool.Put, continue.
ListenerReadErr ==
    /\ Running
    /\ lpc = "recv"
    /\ PoolPut
    /\ lpc' = "select"
    /\ UNCHANGED <<variant, clock, lastReply, ctxDone, mainPc, sock, nsent, cur, msg, msgChan, win, cnt,
                   lastDrop>>
    /\ UNCHANGED dvars

\* Mutant: a send error ends the loop.
AfterReplyReturnsOnErr(v, sent) ==
    IF sent = "err" THEN "stopped" ELSE IF v = "geo" THEN "geo" ELSE "offer"
\* Mutant: after a send error the iteration is over, no alert is offered.
AfterReplySkipsAlertOnErr(v, sent) ==
    IF sent = "err" THEN "select" ELSE IF v = "geo" THEN "geo" ELSE "offer"
\* Where the Listener goes once WriteToUDP has returned ("ok", "err", or
\* "none" when nothing was sent): a send error is only logged.
AfterReply(v, sent) == IF v = "geo" THEN "geo" ELSE "offer"

\* A datagram was read: validate it, build and send the reply; a rejected
\* datagram is logged and the buffer goes back to the pool.
ListenerHandle ==
    /\ Running
    /\ lpc = "check"
    /\ IF Accepts(variant, cur.n, cur.b0)
       THEN \E sendOk \in BOOLEAN :
              LET response == makeNTPResponse(clock)
                  sent == IF ~SendsReply(variant, cur.n) THEN "none"
                          ELSE IF sendOk THEN "ok" ELSE "err"
              IN  /\ cur' = [cur EXCEPT !.codec = TRUE,
                                        !.reply = sent,
                                        !.size = Len(response),
                                        !.rb0 = response[1]]
                  /\ lastReply' = response
                  /\ lpc' = AfterReply(variant, sent)
                  /\ msg' = IF variant = "geo" THEN msg
                            ELSE [id |-> cur.id, text |-> PlainText(cur.id)]
                  /\ UNCHANGED <<pool, held, bufOut>>
       ELSE /\ PoolPut
            /\ lpc' = "select"
            /\ UNCHANGED <<cur, msg, lastReply>>
    /\ UNCHANGED <<variant, clock, ctxDone, mainPc, sock, nsent, msgChan, win, cnt, lastDrop>>
    /\ UNCHANGED dvars

\* getGeoIP returns; the alert text is composed from its result.
ListenerGeo ==
    /\ Running
    /\ lpc = "geo"
    /\ \E o \in GeoOutcomes :
         LET res == getGeoIP(o)
         IN  /\ msg' = [id |-> cur.id, text |-> AlertText(cur.id, res)]
             /\ cur' = [cur EXCEPT !.lookup = IF res.err = "none" THEN "ok" ELSE "err"]
    /\ lpc' = "offer"
    /\ UNCHANGED <<variant, clock, lastReply, ctxDone, mainPc, sock, nsent, msgChan, win, cnt, lastDrop,
                   pool, held, bufOut>>
    /\ UNCHANGED dvars

\* select { case msgChan <- msg: default: warn }
\* Mutant: the capacity test is off by one.
HasRoomOffByOne(q) == Len(q) <= QueueCap
HasRoom(q) == Len(q) < QueueCap
\* Mutant: the send has no default case and no capacity.
OfferUnbounded(q, m) == Append(q, m)
Offer(q, m) == IF HasRoom(q) THEN Append(q, m) ELSE q

\* The non-blocking offer, then bufPool.Put at the end of the iteration.
ListenerOffer ==
    /\ Running
    /\ lpc = "offer"
    /\ msgChan' = Offer(msgChan, msg)
    /\ cur' = [cur EXCEPT !.offer = IF msgChan' # msgChan THEN "queued" ELSE "dropped",
                          !.text = msg.text]
    /\ win' = [offered |-> win.offered + 1,
               queued  |-> win.queued + (IF msgChan' # msgChan THEN 1 ELSE 0),
               dropped |-> win.dropped + (IF msgChan' # msgChan THEN 0 ELSE 1)]
    /\ cnt' = [cnt EXCEPT !.offered = @ + 1,
                           !.dropped = @ + (IF msgChan' # msgChan THEN 0 ELSE 1)]
    /\ lastDrop' = IF msgChan' # msgChan THEN lastDrop ELSE msg.id
    /\ msg' = NoMsg
    /\ PoolPut
    /\ lpc' = "select"
    /\ UNCHANGED <<variant, clock, lastReply, ctxDone, mainPc, sock, nsent>>
    /\ UNCHANGED dvars

\* --------------------------------------------------- processTelegramMessages
\* url.QueryEscape on character tokens: letters, digits and '.' stay, a space
\* becomes '+', every other character its percent code.
EscapeChar(c) ==
    CASE c = " "  -> "+"
      [] c = "\n" -> "%0A"
      [] c = "&"  -> "%26"
      [] c = ":"  -> "%3A"
      [] c = "("  -> "%28"
      [] c = ")"  -> "%29"
      [] OTHER    -> c
QueryEscape(t) == [i \in 1..Len(t) |-> EscapeChar(t[i])]

\* The text parameter of the sendMessage URL the revision builds.
UrlText(v, t) == IF v = "geo" THEN QueryEscape(t) ELSE t

\* Mutant: the select lacks the ctx.Done() case.
SelectCasesNoDone(done, q) == IF q # <<>> THEN {"msg"} ELSE {}
\* The select of the loop: the cases that are ready. With both ready the
\* runtime picks either.
SelectCases(done, q) ==
    (IF done THEN {"done"} ELSE {}) \cup (IF q # <<>> THEN {"msg"} ELSE {})

\* Mutant: the newest message is taken first.
ReceiveNewest(q) == [m |-> q[Len(q)], rest |-> SubSeq(q, 1, Len(q) - 1)]
\* Mutant: the receive leaves the message in the channel.
ReceivePeek(q) == [m |-> Head(q), rest |-> q]
\* The message a receive from the channel takes, and what it leaves.
Receive(q) == [m |-> Head(q), rest |-> Tail(q)]

\* case <-ctx.Done(): return (the deferred Body.Close() calls run).
DispatcherStop ==
    /\ Running
    /\ dpc = "select"
    /\ "done" \in SelectCases(ctxDone, msgChan)
    /\ dpc' = "stopped"
    /\ openResp' = 0
    /\ UNCHANGED <<variant, clock, lastReply, ctxDone, mainPc, msgChan, lastReq, win, cnt>>
    /\ UNCHANGED lvars

\* case msg := <-msgChan: build the URL and call http.Get.
DispatcherTake ==
    /\ Running
    /\ dpc = "select"
    /\ "msg" \in SelectCases(ctxDone, msgChan)
    /\ msgChan' = Receive(msgChan).rest
    /\ lastReq' = [id |-> Receive(msgChan).m.id,
                   prev |-> lastReq.id,
                   text |-> UrlText(variant, Receive(msgChan).m.text),
                   outcome |-> "pending"]
    /\ cnt' = [cnt EXCEPT !.taken = @ + 1]
    /\ dpc' = "http"
    /\ UNCHANGED <<variant, clock, lastReply, ctxDone, mainPc, openResp, win>>
    /\ UNCHANGED lvars

\* What the Dispatcher records of the call's result.
CallOutcome(o) ==
    IF o.err # "none" THEN "transport"
    ELSE IF o.status # StatusOK THEN "status" ELSE "ok"

\* Mutant: an alert whose call failed is put back into the channel.
AfterCallRequeues(q, req, outcome) ==
    IF outcome = "ok" THEN q ELSE Append(q, [id |-> req.id, text |-> req.text])
\* The channel after the call for req has returned: whatever the outcome,
\* the loop only logs and continues, the alert is gone.
AfterCall(q, req, outcome) == q

\* http.Get returns: an error is logged; a response is kept open by the
\* deferred Close and a non-200 status is logged. The loop goes on.
DispatcherDone ==
    /\ Running
    /\ dpc = "http"
    /\ \E o \in TelegramOutcomes :
         /\ openResp' = IF o.err # "none" THEN openResp ELSE openResp + 1
         /\ lastReq' = [lastReq EXCEPT !.outcome = CallOutcome(o)]
         /\ msgChan' = AfterCall(msgChan, lastReq, CallOutcome(o))
    /\ win' = NoWin
    /\ dpc' = "select"
    /\ UNCHANGED <<variant, clock, lastReply, ctxDone, mainPc, cnt>>
    /\ UNCHANGED lvars

\* ----------------------------------------------------------------------- main
\* <-sigChan returns; cancel(). A datagram the Listener is handling at this
\* moment counts as handled after the cancellation.
MainCancel ==
    /\ mainPc = "wait"
    /\ ctxDone' = TRUE
    /\ mainPc' = "sleep"
    /\ cnt' = [cnt EXCEPT !.late = IF lpc \in {"check", "geo", "offer"} THEN 1 ELSE 0]
    /\ UNCHANGED <<variant, clock, lastReply, msgChan, win>>
    /\ UNCHANGED lvars
    /\ UNCHANGED dvars

\* Mutant: main waits for both goroutines before it returns.
MainExitWaits ==
    /\ lpc = "stopped" /\ dpc = "stopped"
    /\ mainPc = "sleep"
    /\ mainPc' = "exited"
    /\ UNCHANGED <<variant, clock, lastReply, ctxDone, msgChan, win, cnt>>
    /\ UNCHANGED lvars
    /\ UNCHANGED dvars

\* time.Sleep(2 * time.Second) is over and main returns: the process ends,
\* and both goroutines with it.
MainExit ==
    /\ mainPc = "sleep"
    /\ mainPc' = "exited"
    /\ UNCHANGED <<variant, clock, lastReply, ctxDone, msgChan, win, cnt>>
    /\ UNCHANGED lvars
    /\ UNCHANGED dvars

Listener ==
    \/ ListenerStop
    \/ ListenerGet
    \/ ListenerRead
    \/ ListenerReadErr
    \/ ListenerHandle
    \/ ListenerGeo
    \/ ListenerOffer

Dispatcher ==
    \/ DispatcherStop
    \/ DispatcherTake
    \/ DispatcherDone

Next ==
    \/ \E d \in Datagrams : Send(d)
    \/ Listener
    \/ Dispatcher
    \/ MainCancel
    \/ MainExit

Spec == Init /\ [][Next]_vars

\* The scheduler runs a goroutine that can take a step, calls to the
\* geolocation and Telegram services return, and a datagram waiting in the
\* socket is returned by some read (read errors do not go on forever).
\* Nothing obliges a client to send, a signal to arrive or the sleep to end.
Fairness ==
    /\ WF_vars(ListenerStop)
    /\ WF_vars(ListenerGet)
    /\ SF_vars(ListenerRead)
    /\ WF_vars(ListenerHandle)
    /\ WF_vars(ListenerGeo)
    /\ WF_vars(ListenerOffer)
    /\ WF_vars(Dispatcher)

\* The program under that scheduler, with fewer datagrams sent.
LiveSend(d) == nsent < MaxLiveDatagrams /\ Send(d)

LiveNext ==
    \/ \E d \in Datagrams : LiveSend(d)
    \/ Listener
    \/ Dispatcher
    \/ MainCancel
    \/ MainExit

LiveSpec == Init /\ [][LiveNext]_vars /\ Fairness

\* The same, with the sleep of main coming to its end.
ExitSpec == LiveSpec /\ WF_vars(MainExit)

\* The program at every instant of Times, with fewer datagrams sent.
CodecSend(d) == nsent < MaxCodecDatagrams /\ Send(d)

CodecNext ==
    \/ \E d \in Datagrams : CodecSend(d)
    \/ Listener
    \/ Dispatcher
    \/ MainCancel
    \/ MainExit

CodecSpec == CodecInit /\ [][CodecNext]_vars

\* =================================================================== claims
\* A client request as the interface defines it: 48 bytes on the wire with
\* mode 3 in the low three bits of byte 0.
IsClientRequest(d) == d.len = 48 /\ d.b0 % 8 = 3

\* A datagram has been read, and the Listener is past validating it.
Validated == cur.id > 0 /\ lpc # "check"

\* The reply the Listener handed to WriteToUDP for the datagram read last.
ReplyBuilt == cur.reply # "none" /\ cur.size = 48 /\ cur.rb0 = 28

InSock(i) == \E k \in DOMAIN sock : sock[k].id = i /\ IsClientRequest(sock[k])

\* The text names the requester's address and says the location is unknown.
HasAddrAndUnknown(t, i) ==
    /\ \E k \in DOMAIN t : t[k] = "10.0.0." \o ToString(i)
    /\ \E k \in DOMAIN t : t[k] = "unknown"

\* C1: a datagram whose length is not 48 or whose mode is not 3 gets no
\* reply, and makeNTPResponse is not called for it.
C1_NoReplyToInvalid ==
    (Validated /\ ~IsClientRequest(cur)) => (cur.reply = "none" /\ ~cur.codec)

C3_NoAlertForInvalid ==
    (cur.id > 0 /\ ~IsClientRequest(cur)) =>
        /\ cur.offer = "none"
        /\ msg.id # cur.id
        /\ \A k \in DOMAIN msgChan : msgChan[k].id # cur.id

\* C4: the queue never holds more than its capacity, the offer can always be
\* taken at once, and an offer to a full queue drops the alert and returns the
\* Listener to the top of its loop.
C4_QueueBoundedOfferNeverBlocks ==
    /\ [](Len(msgChan) <= QueueCap)
    /\ []((Running /\ lpc = "offer") => ENABLED ListenerOffer)
    /\ [][(lpc = "offer" /\ lpc' # "offer" /\ Len(msgChan) = QueueCap) =>
            (msgChan' = msgChan /\ cur'.offer = "dropped" /\ lpc' = "select")]_vars

\* C4 witness: an alert was dropped on a full queue and the Listener is back
\* in its receive.
C4_Witness ==
    /\ cur.offer = "dropped"
    /\ Len(msgChan) = QueueCap
    /\ lpc = "recv"

\* C5 as stated: of more than capacity alerts offered while the Dispatcher
\* completes no delivery, exactly capacity are accepted.
C5_ExactlyCapacityAccepted ==
    win.offered > QueueCap => win.queued = QueueCap

\* C5, amended: of the alerts offered while the Dispatcher completes no
\* delivery at most capacity + 1 are accepted (the queue's slots and the one
\* alert the Dispatcher may hold in its call), every other one is dropped,
\* a drop happens only with the queue full, and neither goroutine blocks.
C5_WindowAccepts ==
    /\ win.queued <= QueueCap + 1
    /\ win.offered = win.queued + win.dropped
    /\ win.dropped > 0 =>
          Len(msgChan) + (IF dpc = "http" THEN 1 ELSE 0) >= QueueCap
    /\ (Running /\ lpc = "offer") => ENABLED ListenerOffer
    /\ (Running /\ dpc = "select" /\ msgChan # <<>>) => ENABLED DispatcherTake
    /\ (Running /\ dpc = "http") => ENABLED DispatcherDone

\* C5 witness: capacity + 1 alerts accepted and one dropped in one window.
C5_Witness ==
    /\ win.queued = QueueCap + 1
    /\ win.dropped >= 1

\* C6: alerts sit in the queue in the order of their enqueueing, every take
\* removes the oldest of them, and the calls to the messaging endpoint start
\* in that order.
C6_FifoDelivery ==
    /\ [](\A j, k \in DOMAIN msgChan : j < k => msgChan[j].id < msgChan[k].id)
    /\ [][(dpc = "select" /\ dpc' = "http") =>
            /\ lastReq'.id = msgChan[1].id
            /\ lastReq'.id > lastReq.id
            /\ \A k \in DOMAIN msgChan' : msgChan'[k].id > lastReq'.id]_vars

\* C6 witness: the call for an alert follows the call for an earlier one,
\* with an alert dropped between the two.
C6_Witness ==
    /\ dpc = "http"
    /\ lastReq.prev > 0
    /\ lastReq.prev < lastDrop /\ lastDrop < lastReq.id

\* C7: after a failed lookup the Listener holds an alert that names the
\* requester's address and the unknown location, and offers it.
C7_LookupFailureStillAlerts ==
    cur.lookup = "err" =>
        /\ lpc = "offer" => (msg.id = cur.id /\ HasAddrAndUnknown(msg.text, cur.id))
        /\ lpc # "offer" => /\ cur.offer \in {"queued", "dropped"}
                            /\ HasAddrAndUnknown(cur.text, cur.id)
        /\ \A k \in DOMAIN msgChan :
              msgChan[k].id = cur.id => HasAddrAndUnknown(msgChan[k].text, cur.id)

\* C7 witness: the alert of a request whose lookup failed is in the queue.
C7_Witness ==
    /\ cur.lookup = "err"
    /\ cur.offer = "queued"
    /\ \E k \in DOMAIN msgChan : msgChan[k].id = cur.id

\* C8: once cancellation has fired the Listener reaches STOPPED (while the
\* process lives), also when it sits in ReadFromUDP and nothing arrives.
C8_ListenerStopsAfterCancel ==
    ctxDone ~> (lpc = "stopped" \/ mainPc = "exited")

\* C9: once cancellation has fired the Dispatcher reaches STOPPED (while the
\* process lives), the call in flight having returned; stopped, it issues
\* no further call, whatever is left in the queue.
C9_DispatcherStops ==
    /\ ctxDone ~> (dpc = "stopped" \/ mainPc = "exited")
    /\ [][dpc = "stopped" => (dpc' = "stopped" /\ lastReq' = lastReq)]_vars

\* C9 witness: the Dispatcher has stopped with alerts left in the queue.
C9_Witness ==
    /\ dpc = "stopped"
    /\ msgChan # <<>>

\* C10: a goroutine is STOPPED only after cancellation; until then, whatever
\* went wrong for a datagram or a message, its loop can take its next step.
C10_RunningUntilCancelled ==
    /\ (lpc = "stopped" \/ dpc = "stopped") => ctxDone
    /\ (Running /\ lpc \notin {"stopped", "recv"}) => ENABLED Listener
    /\ (Running /\ dpc = "http") => ENABLED DispatcherDone

\* C10 witness: after a failed send, a failed lookup, a dropped alert and a
\* failed delivery both loops are back at their blocking points.
C10_Witness ==
    /\ ~ctxDone
    /\ cur.reply = "err" /\ cur.lookup = "err" /\ cur.offer = "dropped"
    /\ lastReq.outcome = "transport"
    /\ lpc = "recv" /\ dpc = "select"

\* C11: a call to the messaging endpoint starts only for an alert just taken
\* from the queue, one per alert; when the call returns, failed or not, the
\* alert is not put back, no second call follows and the Dispatcher is back
\* at its select.
C11_NoRetryNoRequeue ==
    /\ [][(lastReq'.outcome = "pending" /\ lastReq.outcome # "pending") =>
            /\ cnt'.taken = cnt.taken + 1
            /\ lastReq'.id > lastReq.id
            /\ Len(msgChan') = Len(msgChan) - 1]_vars
    /\ [][(dpc = "http" /\ dpc' # "http") =>
            /\ msgChan' = msgChan
            /\ lastReq'.id = lastReq.id /\ lastReq'.outcome # "pending"
            /\ dpc' = "select"]_vars
    /\ [](\A k \in DOMAIN msgChan : msgChan[k].id > lastReq.id)

\* C11 witness: a call has failed, the Dispatcher is back at its select, the
\* failed alert is gone and the next one is ready to be taken.
C11_Witness ==
    /\ dpc = "select"
    /\ lastReq.outcome \in {"transport", "status"}
    /\ msgChan # <<>>
    /\ ENABLED DispatcherTake

\* The 32-bit value in bytes 40-43 of the reply, as two 16-bit words.
ReplySeconds == [hi |-> lastReply[41] * 256 + lastReply[42],
                 lo |-> lastReply[43] * 256 + lastReply[44]]

\* unixTime + 2208988800 for the instant of the clock, carried from the low
\* word into the high one; 2208988800 = 33706 * 65536 + 32384.
SumLo == clock.lo + 32384
SumHi == clock.hi + 33706 + SumLo \div 65536

ReplyShape ==
    /\ Len(lastReply) = 48
    /\ lastReply[1] = 28
    /\ \A i \in 2..40 : lastReply[i] = 0

\* C12 as stated: the reply is 48 bytes, byte 0 is 0x1C, bytes 1-39 are zero
\* and bytes 40-43 hold exactly unixTime + 2208988800.
C12_SecondsExact ==
    lastReply # <<>> =>
        /\ ReplyShape
        /\ ReplySeconds.lo = SumLo % 65536
        /\ ReplySeconds.hi = SumHi

\* C12, amended: bytes 40-43 hold unixTime + 2208988800 modulo 2^32, the sum
\* itself only while it fits 32 bits (until 2036-02-07 06:28:15 UTC).
C12_SecondsMod32 ==
    lastReply # <<>> =>
        /\ ReplyShape
        /\ ReplySeconds.lo = SumLo % 65536
        /\ ReplySeconds.hi = SumHi % 65536
        /\ SumHi < 65536 => ReplySeconds.hi = SumHi

\* C12 witness: a reply built in the first second that does not fit, whose
\* seconds field is zero, has been sent.
C12_Witness ==
    /\ lastReply # <<>>
    /\ cur.reply = "ok"
    /\ SumHi = 65536
    /\ ReplySeconds = [hi |-> 0, lo |-> 0]

\* Characters that must not reach a URL's query unescaped.
Reserved == {" ", "\n", "&", "#", ":", "(", ")"}

\* C13: the text of every call to the messaging endpoint is the escaped
\* form of the alert: no reserved character of the alert is in it as such.
C13_TextEscaped ==
    lastReq.id > 0 => \A k \in DOMAIN lastReq.text : lastReq.text[k] \notin Reserved

\* C14: the Listener holds a buffer exactly while it is between Get and the
\* end of the iteration - one buffer, given back on every path to the top of
\* the loop, once - and while it reads or fills the buffer the buffer's
\* storage is not in the pool.
C14_BorrowedOncePerIteration ==
    /\ bufOut \in {0, 1}
    /\ bufOut = 1 <=> lpc \in {"recv", "check", "geo", "offer"}
    /\ Cardinality(pool) + bufOut <= 1
    /\ lpc \in {"recv", "check"} => \A h \in pool : h.store # held.store

\* C14 witness: a second or later datagram has been served to the end and
\* the buffer is back in the pool.
C14_Witness ==
    /\ lpc = "select"
    /\ bufOut = 0 /\ pool # {}
    /\ cur.id >= 2 /\ cur.offer # "none"

\* C15: what lies in the pool once the Listener has given its buffer back is
\* the very handle the Listener had borrowed.
C15_SameHandleReturned ==
    (bufOut = 0 /\ pool # {}) => pool = {held}

\* C16: the termination request closes ctx.Done() once and for good, and main
\* then exits, whatever the Listener and the Dispatcher are doing: the exit
\* waits for neither and moves neither.
C16_ExitAfterGrace ==
    /\ (mainPc = "sleep") ~> (mainPc = "exited")
    /\ [][(mainPc = "wait" /\ mainPc' # "wait") =>
            (~ctxDone /\ ctxDone' /\ mainPc' = "sleep")]_vars
    /\ [][ctxDone => ctxDone']_vars
    /\ [][(mainPc # "exited" /\ mainPc' = "exited") =>
            (mainPc = "sleep" /\ lpc' = lpc /\ dpc' = dpc)]_vars

\* C16 witness: the process has exited with the Listener inside a lookup and
\* the Dispatcher inside a messaging call.
C16_Witness ==
    /\ mainPc = "exited"
    /\ lpc = "geo"
    /\ dpc = "http"

C18_AtMostOneAfterCancel ==
    /\ [](cnt.late <= 1)
    /\ [][(ctxDone /\ lpc = "select") => lpc' \in {"select", "stopped"}]_vars
    /\ [][(lpc # "stopped" /\ lpc' = "stopped") => (ctxDone /\ lpc = "select")]_vars
    /\ []((lpc = "stopped" /\ cnt.late = 1 /\ Accepts(variant, cur.n, cur.b0)) =>
            /\ cur.codec
            /\ SendsReply(variant, cur.n) => cur.reply # "none"
            /\ variant = "geo" => cur.lookup # "none"
            /\ cur.offer # "none")

\* C18 witness: the Listener has stopped after it served in full a request
\* that arrived after the cancellation.
C18_Witness ==
    /\ lpc = "stopped"
    /\ cnt.late = 1
    /\ IsClientRequest(cur)
    /\ cur.reply = "ok" /\ cur.lookup = "ok" /\ cur.offer = "queued"

\* C19: for a client request the reply has been handed to WriteToUDP before
\* the lookup starts and before the alert is offered, and a send that failed
\* suppresses neither: the Listener goes on to the lookup and the offer, and
\* both steps can be taken.
C19_ReplyBeforeAlert ==
    (cur.id > 0 /\ IsClientRequest(cur)) =>
        /\ (lpc \in {"geo", "offer"} \/ cur.lookup # "none" \/ cur.offer # "none") =>
              (cur.reply # "none" /\ ReplyBuilt)
        /\ cur.offer # "none" => (variant = "geo" => cur.lookup # "none")
        /\ cur.reply = "err" =>
              /\ lpc \in {"geo", "offer"} \/ cur.offer # "none"
              /\ (variant = "geo" /\ lpc # "geo") => cur.lookup # "none"
              /\ (Running /\ lpc = "geo") => ENABLED ListenerGeo
              /\ (Running /\ lpc = "offer") => ENABLED ListenerOffer

\* C19 witness: the reply to a request could not be sent, the lookup was made
\* all the same and the alert is in the queue.
C19_Witness ==
    /\ variant = "geo"
    /\ IsClientRequest(cur)
    /\ cur.reply = "err"
    /\ cur.lookup = "ok"
    /\ cur.offer = "queued"
    /\ \E k \in DOMAIN msgChan : msgChan[k].id = cur.id

\* C20: the Dispatcher holds at most one open response: the one obtained for
\* an alert is closed before the next alert is taken.
C20_AtMostOneOpenResponse ==
    /\ openResp <= 1
    /\ dpc = "http" => openResp = 0
====
